---------------------------- MODULE Spec2Model ----------------------------
(***************************************************************************)
(* Model of the logging package of go-log-middleware: the event builders   *)
(* Access, AccessError, Call and Application, the query redaction of       *)
(* buildFullPath / buildFullUrl, the correlation id propagation and the    *)
(* LogMiddleware with its logResponseWriter and panic recovery.            *)
(*                                                                         *)
(* Strings that the code takes apart (the raw query, the redacted path)    *)
(* are sequences of symbols: one symbol is one character, or one percent   *)
(* escape such as "%26".  Strings that the code only copies are TLA+       *)
(* strings.  A formatted message is the sequence of its pieces.            *)
(***************************************************************************)
EXTENDS Integers, Sequences, FiniteSets, TLC

VARIABLES
    AccessLogCookiesBlacklist,  \* package variable, list of cookie names
    AnonymizedQueryParams,      \* package variable, list of parameter names
    r,                          \* the request of the operation in progress
    out,                        \* what the last direct call of the package API produced
    mw,                         \* the LogMiddleware instance: [panicCode]
    pc,                         \* position of ServeHTTP: "idle", "handling", "done"
    lrw,                        \* the logResponseWriter of the request: [statusCode]
    w,                          \* the wrapped http.ResponseWriter: [wroteHeader, status, calls]
    emitted,                    \* events handed to the Logger by the request in progress
    hist,                       \* bookkeeping of the run: what the handler did, requests served
    writer,                     \* the goroutine that assigns the package variables
    reader                      \* a goroutine building an event while the writer runs

vars == <<AccessLogCookiesBlacklist, AnonymizedQueryParams, r, out, mw, pc, lrw, w,
          emitted, hist, writer, reader>>

----------------------------------------------------------------------------
(* Bounds of the model *)

MaxParams == 3        \* segments of a raw query
MaxCookies == 2       \* cookies of a request
MaxHandlerCalls == 2  \* Write / WriteHeader calls of one handler run
MaxRuntimeFrames == 2 \* runtime frames on top of the stack of a panic

----------------------------------------------------------------------------
(* Generic helpers *)

Range(s) == {s[i] : i \in 1..Len(s)}

SeqsUpTo(S, n) == UNION {[1..k -> S] : k \in 0..n}

\* contains(s, e): linear scan of a list
contains(s, e) == \E i \in 1..Len(s) : s[i] = e

\* http.Header.Get: the first value stored under the key, "" when there is none
HeaderGet(h, key) == IF key \in DOMAIN h /\ Len(h[key]) > 0 THEN h[key][1] ELSE ""

----------------------------------------------------------------------------
(* net/url as used by buildFullPath: r.URL.Query(), Values.Encode and      *)
(* url.QueryUnescape, on sequences of symbols.                             *)

\* byte values of the characters of the model, for sort.Strings
Ord(c) ==
    CASE c = " " -> 32 [] c = "%" -> 37 [] c = "&" -> 38 [] c = "*" -> 42
      [] c = "+" -> 43 [] c = "1" -> 49 [] c = "2" -> 50 [] c = "6" -> 54
      [] c = "7" -> 55 [] c = "=" -> 61 [] c = "?" -> 63 [] c = "A" -> 65
      [] c = "B" -> 66 [] c = "D" -> 68 [] c = "a" -> 97 [] c = "b" -> 98
      [] c = "q" -> 113 [] c = "z" -> 122 [] c = "/" -> 47 [] c = "f" -> 102
      [] c = "0" -> 48 [] c = "3" -> 51

Unreserved == {"a", "b", "q", "z", "f", "0", "1", "2", "3", "6", "7", "A", "B", "D"}

\* the percent escapes of the model and the characters they stand for
Escapes == {"%20", "%26", "%2A", "%2B", "%3D", "%71", "%25", "%3F", "%2F"}

Unhex(sym) ==
    CASE sym = "%20" -> " " [] sym = "%26" -> "&" [] sym = "%2A" -> "*"
      [] sym = "%2B" -> "+" [] sym = "%3D" -> "=" [] sym = "%71" -> "q"
      [] sym = "%25" -> "%" [] sym = "%3F" -> "?" [] sym = "%2F" -> "/"

Hex(c) ==
    CASE c = "&" -> "%26" [] c = "*" -> "%2A" [] c = "+" -> "%2B"
      [] c = "=" -> "%3D" [] c = "%" -> "%25" [] c = "?" -> "%3F" [] c = "/" -> "%2F"

\* the characters of one symbol as they stand in the string
SymChars(sym) ==
    CASE sym = "%20" -> <<"%", "2", "0">> [] sym = "%26" -> <<"%", "2", "6">>
      [] sym = "%2A" -> <<"%", "2", "A">> [] sym = "%2B" -> <<"%", "2", "B">>
      [] sym = "%3D" -> <<"%", "3", "D">> [] sym = "%71" -> <<"%", "7", "1">>
      [] sym = "%25" -> <<"%", "2", "5">> [] sym = "%3F" -> <<"%", "3", "F">>
      [] sym = "%2F" -> <<"%", "2", "F">>
      [] sym = "%zz" -> <<"%", "z", "z">>
      [] OTHER -> <<sym>>

RECURSIVE Chars(_)
Chars(s) == IF s = <<>> THEN <<>> ELSE SymChars(Head(s)) \o Chars(Tail(s))

\* url.QueryUnescape: "+" becomes a space, an escape becomes its character
UnescapeSym(sym) ==
    IF sym = "+" THEN " " ELSE IF sym \in Escapes THEN Unhex(sym) ELSE sym

\* a "%" that is not followed by two hex digits
InvalidEscape == "%zz"

\* url.QueryUnescape fails on an invalid escape
Malformed(s) == \E i \in 1..Len(s) : s[i] = InvalidEscape

\* the string url.QueryUnescape returns; the empty string when it fails
QueryUnescape(s) == IF Malformed(s) THEN <<>> ELSE [i \in 1..Len(s) |-> UnescapeSym(s[i])]

\* url.QueryEscape: unreserved characters stay, a space becomes "+", others are escaped
EscapeChar(c) ==
    IF c \in Unreserved THEN c ELSE IF c = " " THEN "+" ELSE Hex(c)

QueryEscape(s) == [i \in 1..Len(s) |-> EscapeChar(s[i])]

\* strings.Cut(s, sep): the part before the first sep, the part after it, found
IndexOf(s, sep) ==
    IF \E i \in 1..Len(s) : s[i] = sep
    THEN CHOOSE i \in 1..Len(s) : s[i] = sep /\ \A j \in 1..(i - 1) : s[j] # sep
    ELSE 0

Before(s, sep) == IF IndexOf(s, sep) = 0 THEN s ELSE SubSeq(s, 1, IndexOf(s, sep) - 1)

After(s, sep) == IF IndexOf(s, sep) = 0 THEN <<>> ELSE SubSeq(s, IndexOf(s, sep) + 1, Len(s))

\* m[key] = append(m[key], value)
AddValue(m, key, value) ==
    IF key \in DOMAIN m
    THEN [m EXCEPT ![key] = Append(@, value)]
    ELSE m @@ (key :> <<value>>)

\* url.ParseQuery: segments between "&", empty segments skipped, each cut at its
\* first "=", key and value unescaped, a segment whose key or value does not
\* unescape skipped, values collected per key in order
RECURSIVE ParseQueryInto(_, _)
ParseQueryInto(m, query) ==
    IF query = <<>> THEN m
    ELSE LET seg == Before(query, "&")
             rest == After(query, "&")
         IN IF seg = <<>> \/ Malformed(seg) THEN ParseQueryInto(m, rest)
            ELSE ParseQueryInto(
                     AddValue(m, QueryUnescape(Before(seg, "=")),
                                 QueryUnescape(After(seg, "="))),
                     rest)

EmptyValues == [k \in {} |-> <<>>]

URLQuery(req) == ParseQueryInto(EmptyValues, req.URL.RawQuery)

\* lexicographic byte order of two strings
RECURSIVE StrLess(_, _)
StrLess(s, t) ==
    IF t = <<>> THEN FALSE
    ELSE IF s = <<>> THEN TRUE
    ELSE IF Ord(Head(s)) # Ord(Head(t)) THEN Ord(Head(s)) < Ord(Head(t))
    ELSE StrLess(Tail(s), Tail(t))

\* sort.Strings over the keys of a map
RECURSIVE SortedKeys(_)
SortedKeys(keys) ==
    IF keys = {} THEN <<>>
    ELSE LET least == CHOOSE k \in keys : \A o \in keys \ {k} : StrLess(k, o)
         IN <<least>> \o SortedKeys(keys \ {least})

RECURSIVE JoinAmp(_)
JoinAmp(parts) ==
    IF parts = <<>> THEN <<>>
    ELSE IF Len(parts) = 1 THEN parts[1]
    ELSE parts[1] \o <<"&">> \o JoinAmp(Tail(parts))

\* the "key=value" parts of one key, one per value
KeyParts(key, values) ==
    [i \in 1..Len(values) |-> QueryEscape(key) \o <<"=">> \o QueryEscape(values[i])]

RECURSIVE PartsOf(_, _)
PartsOf(v, keys) ==
    IF keys = <<>> THEN <<>>
    ELSE KeyParts(Head(keys), v[Head(keys)]) \o PartsOf(v, Tail(keys))

\* the orders in which a range over a map with these keys can visit them
KeyOrders(keys) ==
    {o \in [1..Cardinality(keys) -> keys] : \A i, j \in DOMAIN o : i # j => o[i] # o[j]}

AnyOrder(keys) == CHOOSE o \in KeyOrders(keys) : TRUE

\* url.Values.Encode: the keys are collected by a range over the map (iter is the
\* order of that range) and sorted; "key=value" joined by "&", both escaped
ValuesEncode_Unsorted(v, iter) == JoinAmp(PartsOf(v, iter))

ValuesEncode(v, iter) == JoinAmp(PartsOf(v, SortedKeys(Range(iter))))

----------------------------------------------------------------------------
(* Query redaction *)

Mask == <<"*", "*", "*", "*", "*">>

\* the loop of buildFullPath: the redacted copy of the query values
redactedParams_NoMask(req, anonymized) == URLQuery(req)

redactedParams(req, anonymized) ==
    LET q == URLQuery(req)
    IN [key \in DOMAIN q |-> IF contains(anonymized, key) THEN <<Mask>> ELSE q[key]]

\* the end of buildFullPath: the copy is encoded, unescaped and put after the path
formatPath(req, queryParams, iter) ==
    LET queryString == QueryUnescape(ValuesEncode(queryParams, iter))
    IN IF queryString # <<>>
       THEN req.URL.Path \o <<"?">> \o queryString
       ELSE req.URL.Path

\* buildFullUrl around the path that its call of buildFullPath returned
formatUrl(req, path) ==
    <<req.URL.Scheme, "://", req.URL.Hostname>>
        \o (IF req.URL.Port # "" THEN <<":", req.URL.Port>> ELSE <<>>)
        \o path

\* buildFullPath against one value of the list, the map ranged over in order iter
buildFullPathIter(req, anonymized, iter) ==
    formatPath(req, redactedParams(req, anonymized), iter)

buildFullUrlIter(req, anonymized, iter) ==
    formatUrl(req, buildFullPathIter(req, anonymized, iter))

----------------------------------------------------------------------------
(* Correlation ids *)

CorrelationIdHeader == "X-Correlation-Id"

UserCorrelationIdHeader == "X-User-Correlation-Id"

GetCorrelationId(h) == HeaderGet(h, CorrelationIdHeader)

GetUserCorrelationId(h) == HeaderGet(h, UserCorrelationIdHeader)

\* EnsureCorrelationId leaves the headers as they are: propagation, no minting
EnsureCorrelationId(req) == req

setCorrelationIds_UserFromRequestId(fields, h) ==
    LET correlationId == GetCorrelationId(h)
        withId == IF correlationId # ""
                  THEN ("correlation_id" :> correlationId) @@ fields
                  ELSE fields
    IN IF correlationId # ""
       THEN ("user_correlation_id" :> GetUserCorrelationId(h)) @@ withId
       ELSE withId

setCorrelationIds(fields, h) ==
    LET correlationId == GetCorrelationId(h)
        userCorrelationId == GetUserCorrelationId(h)
        withId == IF correlationId # ""
                  THEN ("correlation_id" :> correlationId) @@ fields
                  ELSE fields
    IN IF userCorrelationId # ""
       THEN ("user_correlation_id" :> userCorrelationId) @@ withId
       ELSE withId

----------------------------------------------------------------------------
(* Event builders.  An event is what is handed to the Logger: the fields,  *)
(* the level of the logging call and the message.  The "@timestamp" and    *)
(* "duration" fields depend on the clock only and are left out.            *)

\* the builders as the event builders call them; the order of the map range does
\* not show in the result (PathIsRedacted), so one order stands for all
buildFullPath(req) ==
    buildFullPathIter(req, AnonymizedQueryParams, AnyOrder(DOMAIN URLQuery(req)))

buildFullUrl(req) ==
    buildFullUrlIter(req, AnonymizedQueryParams, AnyOrder(DOMAIN URLQuery(req)))

NilError == [isNil |-> TRUE, text |-> <<>>]

ErrorOf(text) == [isNil |-> FALSE, text |-> text]

NilResponse == [isNil |-> TRUE, StatusCode |-> 0, ContentType |-> ""]

ResponseOf(status, contentType) ==
    [isNil |-> FALSE, StatusCode |-> status, ContentType |-> contentType]

\* getRemoteIp; RemoteAddr is kept as its pieces between the colons
getRemoteIp(req) ==
    IF HeaderGet(req.Header, "X-Cluster-Client-Ip") # ""
    THEN HeaderGet(req.Header, "X-Cluster-Client-Ip")
    ELSE IF HeaderGet(req.Header, "X-Real-Ip") # ""
    THEN HeaderGet(req.Header, "X-Real-Ip")
    ELSE req.RemoteAddr[1]

\* the cookie loop of access: name -> value of the cookies that are not blacklisted,
\* a later cookie of the same name replacing an earlier one
RECURSIVE loggedCookies(_, _)
loggedCookies_KeepAll(cookies, blacklist) ==
    IF cookies = <<>> THEN [n \in {} |-> ""]
    ELSE LET c == cookies[Len(cookies)]
             before == loggedCookies(SubSeq(cookies, 1, Len(cookies) - 1), <<>>)
         IN (c.Name :> c.Value) @@ before

loggedCookies(cookies, blacklist) ==
    IF cookies = <<>> THEN [n \in {} |-> ""]
    ELSE LET c == cookies[Len(cookies)]
             before == loggedCookies(SubSeq(cookies, 1, Len(cookies) - 1), blacklist)
         IN IF ~contains(blacklist, c.Name)
            THEN (c.Name :> c.Value) @@ before
            ELSE before

\* access with the url and the cookie map that its loops have built
accessWith(req, statusCode, err, url, cookies) ==
    LET fields == [type |-> "access",
                   remote_ip |-> getRemoteIp(req),
                   host |-> req.Host,
                   url |-> url,
                   method |-> req.Method,
                   proto |-> req.Proto,
                   User_Agent |-> HeaderGet(req.Header, "User-Agent")]
        withStatus == IF statusCode # 0
                      THEN ("response_status" :> statusCode) @@ fields
                      ELSE fields
        withError == IF ~err.isNil
                     THEN ("error" :> err.text) @@ withStatus
                     ELSE withStatus
        withIds == setCorrelationIds(withError, req.Header)
    IN IF DOMAIN cookies # {}
       THEN ("cookies" :> cookies) @@ withIds
       ELSE withIds

access(req, statusCode, err) ==
    accessWith(req, statusCode, err, buildFullPath(req),
               loggedCookies(req.Cookies, AccessLogCookiesBlacklist))

Event(fields, level, message) == [fields |-> fields, level |-> level, message |-> message]

\* the level chosen by Access from the status code
AccessLevel_Off(statusCode) ==
    IF statusCode >= 200 /\ statusCode < 399 THEN "info"
    ELSE IF statusCode >= 400 /\ statusCode <= 499 THEN "warning"
    ELSE "error"

AccessLevel(statusCode) ==
    IF statusCode >= 200 /\ statusCode <= 399 THEN "info"
    ELSE IF statusCode >= 400 /\ statusCode <= 499 THEN "warning"
    ELSE "error"

\* the level chosen by Call from the status code of the response
CallLevel(statusCode) ==
    IF statusCode >= 200 /\ statusCode <= 399 THEN "info"
    ELSE IF statusCode >= 400 /\ statusCode <= 499 THEN "warning"
    ELSE "error"

\* Access around the entry that its call of access returned
AccessWith(req, statusCode, fields) ==
    LET msg == IF Len(req.URL.RawQuery) = 0
               THEN <<ToString(statusCode), " ->", req.Method, " ">> \o req.URL.Path
               ELSE <<ToString(statusCode), " ->", req.Method, " ">> \o req.URL.Path
                        \o <<"?...">>
    IN <<Event(fields, AccessLevel(statusCode), msg)>>

\* Access: the events it hands to the Logger
Access(req, statusCode) ==
    AccessWith(req, statusCode, access(req, statusCode, NilError))

\* AccessError: the events it hands to the Logger
AccessError(req, err) ==
    <<Event(access(req, 0, err), "error",
            <<"ERROR ->", req.Method, " ">> \o req.URL.Path)>>

\* Call with the strings that its calls of buildFullPath and buildFullUrl returned:
\* the url field, the full_url field and the URL of the message
callWith(req, resp, err, url, fullUrl, msgUrl) ==
    LET fields == [type |-> "call",
                   host |-> req.Host,
                   url |-> url,
                   full_url |-> fullUrl,
                   method |-> req.Method]
        withIds == setCorrelationIds(fields, req.Header)
    IN IF ~err.isNil
       THEN <<Event(("error" :> err.text) @@ withIds, "error", err.text)>>
       ELSE IF ~resp.isNil
       THEN <<Event(("response_status" :> resp.StatusCode)
                        @@ ("content_type" :> resp.ContentType) @@ withIds,
                    CallLevel(resp.StatusCode),
                    <<ToString(resp.StatusCode), " ", req.Method, "-> ">> \o msgUrl)>>
       ELSE <<Event(withIds, "warning", <<"call, but no response given">>)>>

\* Call: the events it hands to the Logger
Call_ResponseFirst(req, resp, err) ==
    LET fields == [type |-> "call",
                   host |-> req.Host,
                   url |-> buildFullPath(req),
                   full_url |-> buildFullUrl(req),
                   method |-> req.Method]
        withIds == setCorrelationIds(fields, req.Header)
    IN IF ~resp.isNil
       THEN <<Event(("response_status" :> resp.StatusCode)
                        @@ ("content_type" :> resp.ContentType) @@ withIds,
                    CallLevel(resp.StatusCode),
                    <<ToString(resp.StatusCode), " ", req.Method, "-> ">>
                        \o buildFullUrl(req))>>
       ELSE IF ~err.isNil
       THEN <<Event(("error" :> err.text) @@ withIds, "error", err.text)>>
       ELSE <<Event(withIds, "warning", <<"call, but no response given">>)>>

Call(req, resp, err) ==
    callWith(req, resp, err, buildFullPath(req), buildFullUrl(req), buildFullUrl(req))

\* Application: the fields of the entry it returns
Application(h) == setCorrelationIds([type |-> "application"], h)

----------------------------------------------------------------------------
(* Inputs *)

\* the raw query strings: up to MaxParams segments joined by "&"; a segment is
\* "key=value", "key" alone, or empty
Segments ==
    { <<"a", "=", "1">>, <<"a", "=", "%26">>, <<"q", "=", "1">>,
      <<"q", "=", "+">>, <<"%71", "=", "2">>, <<"a">>, <<"a", "=", "%zz">>, <<>> }

RawQueries == {JoinAmp(segs) : segs \in SeqsUpTo(Segments, MaxParams)}

\* the lists the package variables are set to (order and duplicates allowed)
AnonymizedLists == {<<>>, <<<<"q">>>>, <<<<"z">>, <<"q">>>>, <<<<"a">>, <<"a">>>>}

BlacklistLists == {<<>>, <<"ignore">>, <<"ignore", "user_id">>, <<"foo", "foo">>}

CookieNames == {"ignore", "foo"}

CookieValues == {"me", "bar"}

CookieLists == SeqsUpTo([Name : CookieNames, Value : CookieValues], MaxCookies)

\* the values a correlation header can have: unset, empty, one value, two values
HeaderValues == {<<>>, <<"">>, <<"id-1">>, <<"id-2", "id-1">>}

Headers ==
    {(CorrelationIdHeader :> c) @@ (UserCorrelationIdHeader :> u) :
        c \in HeaderValues \ {<<>>}, u \in HeaderValues \ {<<>>}}
    \cup {(CorrelationIdHeader :> c) : c \in HeaderValues \ {<<>>}}
    \cup {(UserCorrelationIdHeader :> u) : u \in HeaderValues \ {<<>>}}
    \cup {[k \in {} |-> <<>>]}

StatusCodes == {0, 100, 199, 200, 201, 399, 400, 404, 499, 500, 503, 600}

LogQueries ==
    { <<>>, <<"q", "=", "1">>, <<"q", "=", "+", "&", "a", "=", "1">>,
      <<"a", "=", "%26", "&", "%71", "=", "2", "&", "q", "=", "1">> }

Request(query, header, cookies, port) ==
    [Method |-> "GET",
     Host |-> "www.example.org",
     Proto |-> "HTTP/1.1",
     RemoteAddr |-> <<"127.0.0.1", "4711">>,
     URL |-> [Scheme |-> "http", Hostname |-> "www.example.org", Port |-> port,
              Path |-> <<"/", "f">>, RawQuery |-> query],
     Header |-> header,
     Cookies |-> cookies]

NoRequest == Request(<<>>, [k \in {} |-> <<>>], <<>>, "")

NoOutput == [op |-> "none"]

\* the wrapped http.ResponseWriter before anything is written: no header sent;
\* calls counts the WriteHeader calls it has received
NewResponseWriter == [wroteHeader |-> FALSE, status |-> 0, calls |-> 0]

\* what the run remembers of the request in progress: the handler calls made, the
\* argument of the first WriteHeader call (0: none), how the handler ended, the
\* panic value and stack, the writer as it was when the handler panicked, and
\* whether an earlier request of this middleware panicked
NoHistory ==
    [calls |-> 0, firstHeader |-> 0, outcome |-> "none", value |-> "", stack |-> <<>>,
     before |-> NewResponseWriter, panicked |-> FALSE]

\* the state of the middleware while no middleware runs
MwInit ==
    /\ mw = [panicCode |-> 0]
    /\ pc = "idle"
    /\ lrw = [statusCode |-> 0]
    /\ w = NewResponseWriter
    /\ emitted = <<>>
    /\ hist = NoHistory

MwUnchanged == UNCHANGED <<mw, pc, lrw, w, emitted, hist>>

\* no goroutine besides the one of the model is running
NoWriter == [pc |-> "idle"]

NoReader == [pc |-> "idle"]

Sequential == writer = NoWriter /\ reader = NoReader

StaysSequential == UNCHANGED <<writer, reader>>

----------------------------------------------------------------------------
(* SpecPath: buildFullPath and buildFullUrl applied to every raw query    *)
(* under every anonymization list.                                        *)

InitPath ==
    /\ AccessLogCookiesBlacklist = <<>>
    /\ AnonymizedQueryParams \in AnonymizedLists
    /\ \E query \in RawQueries :
           r = Request(query, [k \in {} |-> <<>>], <<>>, "8080")
    /\ out = NoOutput
    /\ MwInit
    /\ Sequential

BuildFullPath ==
    /\ out.op = "none"
    /\ \E iter1, iter2 \in KeyOrders(DOMAIN URLQuery(r)) :
           out' = [op |-> "buildFullPath",
                   path |-> buildFullPathIter(r, AnonymizedQueryParams, iter1),
                   full |-> buildFullUrlIter(r, AnonymizedQueryParams, iter2)]
    /\ UNCHANGED <<AccessLogCookiesBlacklist, AnonymizedQueryParams, r>>
    /\ MwUnchanged
    /\ StaysSequential

BuildFullPathAgain ==
    /\ out.op = "buildFullPath"
    /\ \E iter1, iter2 \in KeyOrders(DOMAIN URLQuery(r)) :
           out' = [op |-> "again", path |-> out.path, full |-> out.full,
                   path2 |-> buildFullPathIter(r, AnonymizedQueryParams, iter1),
                   full2 |-> buildFullUrlIter(r, AnonymizedQueryParams, iter2)]
    /\ UNCHANGED <<AccessLogCookiesBlacklist, AnonymizedQueryParams, r>>
    /\ MwUnchanged
    /\ StaysSequential

NextPath == BuildFullPath \/ BuildFullPathAgain

SpecPath == InitPath /\ [][NextPath]_vars

----------------------------------------------------------------------------
(* Claims about buildFullPath (SpecPath) *)

Built == out.op \in {"buildFullPath", "again"}

\* the text a reader expects for the parameters taken in the order names: a masked
\* name once with the mask, any other name once per value with that value
RECURSIVE ExpectedParts(_, _, _)
ExpectedParts(q, anonymized, names) ==
    IF names = <<>> THEN <<>>
    ELSE LET name == Head(names)
             own == IF \E i \in 1..Len(anonymized) : anonymized[i] = name
                    THEN <<name \o <<"=">> \o Mask>>
                    ELSE [i \in 1..Len(q[name]) |-> name \o <<"=">> \o q[name][i]]
         IN own \o ExpectedParts(q, anonymized, Tail(names))

ExpectedPath(req, anonymized, names) ==
    IF names = <<>> THEN req.URL.Path
    ELSE req.URL.Path \o <<"?">>
             \o JoinAmp(ExpectedParts(URLQuery(req), anonymized, names))

UrlPrefix(req) ==
    <<req.URL.Scheme, "://", req.URL.Hostname>>
        \o (IF req.URL.Port # "" THEN <<":", req.URL.Port>> ELSE <<>>)

\* C7: in url and full_url every parameter named in AnonymizedQueryParams shows
\* exactly the mask, every other parameter shows its values as they are, in their
\* order, nothing else is added, and a second build gives the same text.
PathIsRedacted ==
    Built =>
        /\ \E names \in KeyOrders(DOMAIN URLQuery(r)) :
               out.path = ExpectedPath(r, AnonymizedQueryParams, names)
        /\ out.full = UrlPrefix(r) \o out.path
        /\ out.op = "again" => out.path2 = out.path /\ out.full2 = out.full

PathIsRedactedWitness ==
    /\ out.op = "again"
    /\ \E name \in DOMAIN URLQuery(r) :
           /\ contains(AnonymizedQueryParams, name)
           /\ Len(URLQuery(r)[name]) > 1
    /\ \E name \in DOMAIN URLQuery(r) : ~contains(AnonymizedQueryParams, name)
    /\ \E i \in 1..Len(AnonymizedQueryParams) :
           AnonymizedQueryParams[i] \notin DOMAIN URLQuery(r)


\* the original path and query of the request, character by character
OriginalText(req) ==
    Chars(req.URL.Path
              \o (IF req.URL.RawQuery = <<>> THEN <<>> ELSE <<"?">> \o req.URL.RawQuery))

RECURSIVE SplitAmp(_)
SplitAmp(s) ==
    IF IndexOf(s, "&") = 0 THEN <<s>>
    ELSE <<Before(s, "&")>> \o SplitAmp(After(s, "&"))

\* a query written the way Values.Encode followed by QueryUnescape writes it: only
\* name=value segments, no "+" and no percent escape, names in ascending order
Canonical(raw) ==
    \/ raw = <<>>
    \/ LET segs == SplitAmp(raw)
       IN /\ \A i \in 1..Len(segs) :
                 /\ segs[i] # <<>>
                 /\ IndexOf(segs[i], "=") # 0
                 /\ \A j \in 1..Len(segs[i]) : segs[i][j] \notin Escapes \cup {"+", InvalidEscape}
          /\ \A i \in 1..(Len(segs) - 1) :
                 ~StrLess(Before(segs[i + 1], "="), Before(segs[i], "="))

\* C8 as stated: with an empty AnonymizedQueryParams buildFullPath returns the
\* original path, "?" and the original query string, whatever the query.
RoundTripExact ==
    (Built /\ AnonymizedQueryParams = <<>>) => out.path = OriginalText(r)

\* C8, amended: with an empty AnonymizedQueryParams buildFullPath returns the path
\* followed by the decoded parameters as name=value in ascending order of the names
\* (the values of one name in their order); that is the original path and query
\* when the query is made of name=value segments only, without "+" or percent
\* escapes, with the names already in ascending order, or when there is no query.
RoundTripCanonical ==
    (Built /\ AnonymizedQueryParams = <<>>) =>
        /\ out.path = ExpectedPath(r, <<>>, SortedKeys(DOMAIN URLQuery(r)))
        /\ Canonical(r.URL.RawQuery) => out.path = OriginalText(r)

RoundTripCanonicalWitness ==
    /\ Built
    /\ AnonymizedQueryParams = <<>>
    /\ Canonical(r.URL.RawQuery)
    /\ Cardinality(DOMAIN URLQuery(r)) > 1
    /\ \E name \in DOMAIN URLQuery(r) : Len(URLQuery(r)[name]) > 1
    /\ out.path = OriginalText(r)


----------------------------------------------------------------------------
(* Direct calls of the package API.  Each takes its inputs from the set it is  *)
(* given, keeps the request in r and the events it handed to the Logger in out. *)
(* One call is observed at a time: out is cleared when a package variable is    *)
(* set or a request enters the middleware.                                      *)

BaseHeader ==
    (CorrelationIdHeader :> <<"correlation-123">>)
        @@ (UserCorrelationIdHeader :> <<"user-correlation-123">>)

BaseCookies == <<[Name |-> "ignore", Value |-> "me"], [Name |-> "foo", Value |-> "bar"]>>

BaseQuery == <<"q", "=", "1">>

BaseRequest == Request(BaseQuery, BaseHeader, BaseCookies, "")

\* requests that differ in their correlation headers
HeaderRequests == {Request(BaseQuery, h, BaseCookies, "") : h \in Headers}

\* requests that differ in their headers, in their cookies, or in their URL
LogRequests ==
    HeaderRequests
        \cup {Request(BaseQuery, BaseHeader, c, "") : c \in CookieLists}
        \cup {Request(q, BaseHeader, BaseCookies, p) : q \in LogQueries, p \in {"", "8080"}}

Oops == ErrorOf(<<"oops">>)

Responses == {ResponseOf(s, "text/html") : s \in StatusCodes}

AccessInputs(reqs) ==
    {<<req, 201>> : req \in reqs} \cup {<<BaseRequest, s>> : s \in StatusCodes}

CallInputs(reqs) ==
    {<<req, resp, err>> :
        req \in reqs,
        resp \in {NilResponse, ResponseOf(404, "text/html")},
        err \in {NilError, Oops}}
    \cup {<<BaseRequest, resp, NilError>> : resp \in Responses}

PolicyUnchanged == UNCHANGED <<AccessLogCookiesBlacklist, AnonymizedQueryParams>>

DoAccess(inputs) ==
    /\ pc = "idle"
    /\ out.op = "none"
    /\ \E in \in inputs :
           /\ r' = in[1]
           /\ out' = [op |-> "Access", statusCode |-> in[2],
                      events |-> Access(in[1], in[2])]
    /\ PolicyUnchanged
    /\ MwUnchanged
    /\ StaysSequential

DoAccessError(reqs) ==
    /\ pc = "idle"
    /\ out.op = "none"
    /\ \E req \in reqs :
           /\ r' = req
           /\ out' = [op |-> "AccessError", err |-> Oops,
                      events |-> AccessError(req, Oops)]
    /\ PolicyUnchanged
    /\ MwUnchanged
    /\ StaysSequential

DoCall(inputs) ==
    /\ pc = "idle"
    /\ out.op = "none"
    /\ \E in \in inputs :
           /\ r' = in[1]
           /\ out' = [op |-> "Call", resp |-> in[2], err |-> in[3],
                      events |-> Call(in[1], in[2], in[3])]
    /\ PolicyUnchanged
    /\ MwUnchanged
    /\ StaysSequential

\* Application returns an entry and logs nothing itself; the entry's fields are kept
DoApplication(reqs) ==
    /\ pc = "idle"
    /\ out.op = "none"
    /\ \E req \in reqs :
           /\ r' = req
           /\ out' = [op |-> "Application", events |-> <<>>,
                      entry |-> Application(req.Header)]
    /\ PolicyUnchanged
    /\ MwUnchanged
    /\ StaysSequential

\* AccessLogCookiesBlacklist = list; what the last call produced is forgotten
SetAccessLogCookiesBlacklist ==
    /\ \E list \in BlacklistLists :
           /\ list # AccessLogCookiesBlacklist
           /\ AccessLogCookiesBlacklist' = list
    /\ out' = NoOutput
    /\ r' = NoRequest
    /\ UNCHANGED AnonymizedQueryParams
    /\ MwUnchanged
    /\ StaysSequential

\* AnonymizedQueryParams = list; what the last call produced is forgotten
SetAnonymizedQueryParams ==
    /\ \E list \in AnonymizedLists :
           /\ list # AnonymizedQueryParams
           /\ AnonymizedQueryParams' = list
    /\ out' = NoOutput
    /\ r' = NoRequest
    /\ UNCHANGED AccessLogCookiesBlacklist
    /\ MwUnchanged
    /\ StaysSequential

InitLog ==
    /\ AccessLogCookiesBlacklist = <<>>
    /\ AnonymizedQueryParams = <<>>
    /\ r = NoRequest
    /\ out = NoOutput
    /\ MwInit
    /\ Sequential

NextLog ==
    \/ SetAccessLogCookiesBlacklist
    \/ SetAnonymizedQueryParams
    \/ DoAccess(AccessInputs(LogRequests))
    \/ DoAccessError(LogRequests)
    \/ DoCall(CallInputs(LogRequests))
    \/ DoApplication(HeaderRequests)

SpecLog == InitLog /\ [][NextLog]_vars


----------------------------------------------------------------------------
(* Claims about the event builders (SpecLog) *)

\* the severity the specification gives to a status code
SeverityOf(s) ==
    IF s \in 200..399 THEN "info" ELSE IF s \in 400..499 THEN "warning" ELSE "error"

\* C2: the event of Access(s), and the event of Call with a response of status s
\* and no error, has severity info for 200..399, warning for 400..499 and error
\* for every other s.
SeverityFollowsStatus ==
    /\ out.op = "Access" =>
           /\ Len(out.events) = 1
           /\ out.events[1].level = SeverityOf(out.statusCode)
    /\ (out.op = "Call" /\ out.err.isNil /\ ~out.resp.isNil) =>
           /\ Len(out.events) = 1
           /\ out.events[1].level = SeverityOf(out.resp.StatusCode)

SeverityFollowsStatusWitness ==
    /\ out.op = "Access"
    /\ out.statusCode = 399
    /\ out.events[1].level = "info"

\* the cookies field of an event, empty when the event has none
CookieField(e) ==
    IF "cookies" \in DOMAIN e.fields THEN e.fields.cookies ELSE [n \in {} |-> ""]

Blacklisted(name) ==
    \E i \in 1..Len(AccessLogCookiesBlacklist) : AccessLogCookiesBlacklist[i] = name

LoggingCall == out.op \in {"Access", "AccessError", "Call"}

\* C6 as stated: no event contains the value of a blacklisted cookie, every cookie
\* that is not blacklisted is in the cookies field of the access event under its
\* name with its value, and the field is omitted when no cookie remains.
CookiesAllLogged ==
    LoggingCall =>
        \A k \in 1..Len(out.events) :
            LET e == out.events[k]
                cookies == CookieField(e)
            IN /\ \A i \in 1..Len(r.Cookies) :
                      Blacklisted(r.Cookies[i].Name) =>
                          \A n \in DOMAIN cookies : cookies[n] # r.Cookies[i].Value
               /\ e.fields.type = "access" =>
                      /\ \A i \in 1..Len(r.Cookies) :
                             ~Blacklisted(r.Cookies[i].Name) =>
                                 /\ r.Cookies[i].Name \in DOMAIN cookies
                                 /\ cookies[r.Cookies[i].Name] = r.Cookies[i].Value
                      /\ "cookies" \in DOMAIN e.fields
                             <=> \E i \in 1..Len(r.Cookies) :
                                     ~Blacklisted(r.Cookies[i].Name)

\* the value of the last cookie of the request with this name
LastValue(cookies, name) ==
    LET last == CHOOSE i \in 1..Len(cookies) :
                    /\ cookies[i].Name = name
                    /\ \A j \in (i + 1)..Len(cookies) : cookies[j].Name # name
    IN cookies[last].Value

\* C6, amended: the cookies field of an event has no entry under a blacklisted
\* name and only entries of cookies of the request; every name of a cookie that
\* is not blacklisted has one entry in the cookies field of the access event, with
\* the value of the last cookie of that name; the field is omitted when no cookie
\* remains, and a call event has no cookies field.
CookiesLoggedByName ==
    LoggingCall =>
        \A k \in 1..Len(out.events) :
            LET e == out.events[k]
                cookies == CookieField(e)
            IN /\ \A n \in DOMAIN cookies :
                      /\ ~Blacklisted(n)
                      /\ \E i \in 1..Len(r.Cookies) : r.Cookies[i].Name = n
                      /\ cookies[n] = LastValue(r.Cookies, n)
               /\ e.fields.type = "access" =>
                      /\ \A i \in 1..Len(r.Cookies) :
                             ~Blacklisted(r.Cookies[i].Name) =>
                                 r.Cookies[i].Name \in DOMAIN cookies
                      /\ "cookies" \in DOMAIN e.fields
                             <=> \E i \in 1..Len(r.Cookies) :
                                     ~Blacklisted(r.Cookies[i].Name)
               /\ e.fields.type = "call" => "cookies" \notin DOMAIN e.fields

CookiesLoggedByNameWitness ==
    /\ out.op = "Access"
    /\ AccessLogCookiesBlacklist # <<>>
    /\ Len(r.Cookies) = 2
    /\ r.Cookies[1].Name = r.Cookies[2].Name
    /\ r.Cookies[1].Value # r.Cookies[2].Value
    /\ "cookies" \in DOMAIN out.events[1].fields
    /\ out.events[1].fields.cookies[r.Cookies[1].Name] = r.Cookies[2].Value

\* C9: Call hands one call event to the Logger: with an error, severity error, the
\* error field and the message are the error text and there is no response_status,
\* response or not; else with a response, response_status and content_type are
\* set, the severity follows the status and the message is "<status> <method>->
\* <full_url>" with the redacted full URL; else severity warning and the message
\* "call, but no response given".
CallEmitsOneEvent ==
    out.op = "Call" =>
        /\ Len(out.events) = 1
        /\ LET e == out.events[1]
           IN /\ e.fields.type = "call"
              /\ e.fields.full_url
                     = UrlPrefix(r) \o ExpectedPath(r, AnonymizedQueryParams,
                                                    SortedKeys(DOMAIN URLQuery(r)))
              /\ IF ~out.err.isNil
                 THEN /\ e.level = "error"
                      /\ "error" \in DOMAIN e.fields
                      /\ e.fields.error = out.err.text
                      /\ e.message = out.err.text
                      /\ "response_status" \notin DOMAIN e.fields
                 ELSE IF ~out.resp.isNil
                 THEN /\ "error" \notin DOMAIN e.fields
                      /\ e.fields.response_status = out.resp.StatusCode
                      /\ e.fields.content_type = out.resp.ContentType
                      /\ e.level = SeverityOf(out.resp.StatusCode)
                      /\ e.message
                             = <<ToString(out.resp.StatusCode), " ", r.Method, "-> ">>
                                   \o e.fields.full_url
                 ELSE /\ e.level = "warning"
                      /\ e.message = <<"call, but no response given">>
                      /\ "error" \notin DOMAIN e.fields
                      /\ "response_status" \notin DOMAIN e.fields

CallEmitsOneEventWitness ==
    /\ out.op = "Call"
    /\ ~out.err.isNil
    /\ ~out.resp.isNil
    /\ out.events[1].level = "error"
    /\ AnonymizedQueryParams # <<>>


----------------------------------------------------------------------------
(* The middleware *)

\* WithPanicStatus(statusCode) applied to a middleware
WithPanicStatus(lmw, statusCode) == [lmw EXCEPT !.panicCode = statusCode]

\* NewLogMiddleware(next, options...): the options applied in order; an option
\* is given by the status code of its WithPanicStatus
RECURSIVE applyOptions(_, _)
applyOptions(lmw, options) ==
    IF options = <<>> THEN lmw
    ELSE applyOptions(WithPanicStatus(lmw, Head(options)), Tail(options))

NewLogMiddleware(options) == applyOptions([panicCode |-> 0], options)

OptionLists == {<<>>, <<500>>, <<503>>, <<500, 0>>}

\* the wrapped http.ResponseWriter: the first WriteHeader sends the headers, a
\* later one is ignored; a Write before any WriteHeader sends status 200
WriteHeaderOn(wr, statusCode) ==
    IF wr.wroteHeader
    THEN [wr EXCEPT !.calls = @ + 1]
    ELSE [wroteHeader |-> TRUE, status |-> statusCode, calls |-> wr.calls + 1]

WriteOn(wr) ==
    IF wr.wroteHeader THEN wr ELSE [wr EXCEPT !.wroteHeader = TRUE, !.status = 200]

\* logResponseWriter.WriteHeader: the status code kept by the wrapper
lrwWriteHeader(l, statusCode) == [l EXCEPT !.statusCode = statusCode]

\* the status codes a handler answers with, the values it panics with
HandlerCodes == {200, 404, 500}

\* what recover() returns in the deferred function: nil when the handler returned,
\* else the value of the panic (a panic(nil) arrives as a runtime error value)
NoPanic == [isNil |-> TRUE, text |-> ""]

PanicValues ==
    { [isNil |-> FALSE, text |-> "boom"],
      [isNil |-> FALSE, text |-> "runtime error: index out of range"],
      [isNil |-> FALSE, text |-> "panic called with nil argument"] }

\* the array handed to runtime.Callers
PcLen == 16

\* a frame: whether runtime.FuncForPC knows its function, the function's name
\* (package and name within it), its file and line
Frame(known, pkg, fn, file, line) ==
    [known |-> known, name |-> [pkg |-> pkg, fn |-> fn], file |-> file, line |-> line]

GoPanic == Frame(TRUE, "runtime", "gopanic", "runtime/panic.go", 884)

RuntimeFrames ==
    { Frame(TRUE, "runtime", "goPanicIndex", "runtime/panic.go", 113),
      Frame(TRUE, "runtime", "panicmem", "runtime/panic.go", 260) }

UnknownFrame == Frame(FALSE, "", "", "", 0)

UserStacks ==
    { << Frame(TRUE, "main", "handler", "main.go", 12),
         Frame(TRUE, "logging", "(*LogMiddleware).ServeHTTP", "log_middleware.go", 52) >>,
      << Frame(TRUE, "runtime/debug", "helper", "helper.go", 30),
         Frame(TRUE, "main", "handler", "main.go", 14),
         Frame(TRUE, "logging", "(*LogMiddleware).ServeHTTP", "log_middleware.go", 52) >> }

\* the stacks runtime.Callers(3, ...) can see in the deferred function: the
\* runtime's panic frames, then the frames of the handler down to ServeHTTP
Stacks ==
    { <<GoPanic>> \o rt \o mid \o usr :
        rt \in SeqsUpTo(RuntimeFrames, MaxRuntimeFrames - 1),
        mid \in {<<>>, <<UnknownFrame>>},
        usr \in UserStacks }

Callers(stack) == SubSeq(stack, 1, IF Len(stack) < PcLen THEN Len(stack) ELSE PcLen)

NoName == [pkg |-> "", fn |-> ""]

\* the loop of identifyLogOrigin: name, file and line of the last frame looked at
RECURSIVE scanFrames(_, _)
scanFrames_First(frames, cur) ==
    IF frames = <<>> THEN cur
    ELSE LET f == Head(frames)
         IN IF ~f.known THEN scanFrames(Tail(frames), cur)
            ELSE [name |-> f.name, file |-> f.file, line |-> f.line]

scanFrames(frames, cur) ==
    IF frames = <<>> THEN cur
    ELSE LET f == Head(frames)
             seen == [name |-> f.name, file |-> f.file, line |-> f.line]
         IN IF ~f.known THEN scanFrames(Tail(frames), cur)
            ELSE IF f.name.pkg # "runtime" THEN seen
            ELSE scanFrames(Tail(frames), seen)

identifyLogOrigin(stack) ==
    LET at == scanFrames(Callers(stack), [name |-> NoName, file |-> "", line |-> 0])
    IN IF at.name # NoName
       THEN <<at.name.pkg, ".", at.name.fn, ":", ToString(at.line)>>
       ELSE IF at.file # ""
       THEN <<at.file, ":", ToString(at.line)>>
       ELSE <<"pc:", "[]">>

\* the events of the deferred function for the recovered value rec
panicEvents_None(req, origin, rec) == <<>>

panicEvents(req, origin, rec) ==
    AccessError(req, ErrorOf(<<"PANIC (">> \o origin \o <<"): ", rec.text>>))

\* the deferred function's WriteHeader on the writer it was given
forcePanicStatus_Always(m, wr) == WriteHeaderOn(wr, m.panicCode)

forcePanicStatus(m, wr) ==
    IF m.panicCode # 0 THEN WriteHeaderOn(wr, m.panicCode) ELSE wr

\* the deferred function of ServeHTTP with rec the result of recover(): the events
\* it hands to the Logger and the writer as it leaves it
deferred(m, req, wr, rec, stack) ==
    IF ~rec.isNil
    THEN [events |-> panicEvents(req, identifyLogOrigin(stack), rec),
          w |-> forcePanicStatus(m, wr)]
    ELSE [events |-> <<>>, w |-> wr]

MwHeaders ==
    { [k \in {} |-> <<>>],
      (CorrelationIdHeader :> <<"id-1">>),
      (UserCorrelationIdHeader :> <<"id-2", "id-1">>),
      BaseHeader }

MwRequests == {Request(BaseQuery, h, BaseCookies, "") : h \in MwHeaders}

\* ServeHTTP up to the call of the wrapped handler
ServeHTTP ==
    /\ pc = "idle"
    /\ \E req \in MwRequests : r' = EnsureCorrelationId(req)
    /\ lrw' = [statusCode |-> 200]
    /\ w' = NewResponseWriter
    /\ emitted' = <<>>
    /\ hist' = [NoHistory EXCEPT !.panicked = hist.panicked]
    /\ pc' = "handling"
    /\ out' = NoOutput
    /\ UNCHANGED mw
    /\ PolicyUnchanged
    /\ StaysSequential

\* the handler calls Write on the writer it was given
HandlerWrite ==
    /\ pc = "handling"
    /\ hist.calls < MaxHandlerCalls
    /\ w' = WriteOn(w)
    /\ hist' = [hist EXCEPT !.calls = @ + 1]
    /\ UNCHANGED <<r, out, mw, pc, lrw, emitted>>
    /\ PolicyUnchanged
    /\ StaysSequential

\* the handler calls WriteHeader on the writer it was given
HandlerWriteHeader ==
    /\ pc = "handling"
    /\ hist.calls < MaxHandlerCalls
    /\ \E statusCode \in HandlerCodes :
           /\ lrw' = lrwWriteHeader(lrw, statusCode)
           /\ w' = WriteHeaderOn(w, statusCode)
           /\ hist' = [hist EXCEPT !.calls = @ + 1,
                                   !.firstHeader = IF @ = 0 THEN statusCode ELSE @]
    /\ UNCHANGED <<r, out, mw, pc, emitted>>
    /\ PolicyUnchanged
    /\ StaysSequential

\* the handler returns: Access with the status code of the wrapper, then the
\* deferred function, which has nothing to recover
HandlerReturn ==
    /\ pc = "handling"
    /\ LET after == deferred(mw, r, w, NoPanic, <<>>)
       IN /\ emitted' = emitted \o Access(r, lrw.statusCode) \o after.events
          /\ w' = after.w
    /\ hist' = [hist EXCEPT !.outcome = "returned"]
    /\ pc' = "done"
    /\ UNCHANGED <<r, out, mw, lrw>>
    /\ PolicyUnchanged
    /\ StaysSequential

\* the handler panics: the deferred function recovers the value, logs the access
\* error and writes the panic status; ServeHTTP returns
HandlerPanic ==
    /\ pc = "handling"
    /\ \E rec \in PanicValues, stack \in Stacks :
           LET after == deferred(mw, r, w, rec, stack)
           IN /\ emitted' = emitted \o after.events
              /\ w' = after.w
              /\ hist' = [hist EXCEPT !.outcome = "panicked", !.value = rec.text,
                                      !.stack = stack, !.before = w,
                                      !.panicked = TRUE]
    /\ pc' = "done"
    /\ UNCHANGED <<r, out, mw, lrw>>
    /\ PolicyUnchanged
    /\ StaysSequential

\* ServeHTTP has returned; the middleware waits for the next request
Finish ==
    /\ pc = "done"
    /\ pc' = "idle"
    /\ r' = NoRequest
    /\ lrw' = [statusCode |-> 0]
    /\ w' = NewResponseWriter
    /\ emitted' = <<>>
    /\ hist' = [NoHistory EXCEPT !.panicked = hist.panicked]
    /\ UNCHANGED <<out, mw>>
    /\ PolicyUnchanged
    /\ StaysSequential

Init ==
    /\ AccessLogCookiesBlacklist = <<"ignore", "user_id">>
    /\ AnonymizedQueryParams = <<<<"q">>>>
    /\ r = NoRequest
    /\ out = NoOutput
    /\ \E options \in OptionLists : mw = NewLogMiddleware(options)
    /\ pc = "idle"
    /\ lrw = [statusCode |-> 0]
    /\ w = NewResponseWriter
    /\ emitted = <<>>
    /\ hist = NoHistory
    /\ Sequential

Next ==
    \/ ServeHTTP
    \/ HandlerWrite
    \/ HandlerWriteHeader
    \/ HandlerReturn
    \/ HandlerPanic
    \/ Finish
    \/ DoAccess(AccessInputs(HeaderRequests))
    \/ DoAccessError(HeaderRequests)
    \/ DoCall(CallInputs(HeaderRequests))
    \/ DoApplication(HeaderRequests)

Spec == Init /\ [][Next]_vars


----------------------------------------------------------------------------
(* Claims about the middleware (Spec) *)

Returned == pc = "done" /\ hist.outcome = "returned"

Panicked == pc = "done" /\ hist.outcome = "panicked"

\* C1: a request hands exactly one event to the Logger: nothing while the handler
\* runs, then the access event with the captured status when the handler returns,
\* or one access event of severity error with the error field when it panics;
\* after a panic ServeHTTP returns, and the middleware takes the next request,
\* for which the same holds.
OneEventPerRequest ==
    /\ pc = "handling" => emitted = <<>>
    /\ pc = "done" =>
           /\ Len(emitted) = 1
           /\ emitted[1].fields.type = "access"
           /\ hist.outcome \in {"returned", "panicked"}
           /\ ENABLED Finish
    /\ Returned =>
           /\ "error" \notin DOMAIN emitted[1].fields
           /\ emitted[1].fields.response_status = lrw.statusCode
           /\ emitted[1].level = SeverityOf(lrw.statusCode)
    /\ Panicked =>
           /\ "error" \in DOMAIN emitted[1].fields
           /\ "response_status" \notin DOMAIN emitted[1].fields
           /\ emitted[1].level = "error"
    /\ pc = "idle" => ENABLED ServeHTTP

OneEventPerRequestWitness ==
    /\ Returned
    /\ hist.panicked
    /\ hist.calls > 0
    /\ Len(emitted) = 1
    /\ emitted[1].level = "warning"

\* C3 as stated: when the handler returns, response_status of the access event is
\* the argument of the handler's first WriteHeader call, and 200 when the handler
\* never called WriteHeader.
StatusIsFirstWriteHeader ==
    (Returned /\ Len(emitted) = 1) =>
        emitted[1].fields.response_status
            = (IF hist.firstHeader = 0 THEN 200 ELSE hist.firstHeader)

\* C4: after a panic the response is as the handler left it when no panic status
\* is configured (the middleware calls no WriteHeader) and keeps the status the
\* handler had sent when the headers were already sent; it gets the configured
\* status when one is configured and no headers were sent.
PanicStatusForced ==
    Panicked =>
        /\ mw.panicCode = 0 => w = hist.before
        /\ hist.before.wroteHeader =>
               /\ w.wroteHeader
               /\ w.status = hist.before.status
        /\ (mw.panicCode # 0 /\ ~hist.before.wroteHeader) =>
               /\ w.wroteHeader
               /\ w.status = mw.panicCode

PanicStatusForcedWitness ==
    /\ Panicked
    /\ mw.panicCode # 0
    /\ hist.before.wroteHeader
    /\ hist.before.status # mw.panicCode
    /\ w.status = hist.before.status

\* the innermost frame of a known function outside package runtime, as
\* "<function>:<line>"
ExpectedOrigin(stack) ==
    LET outside(i) == stack[i].known /\ stack[i].name.pkg # "runtime"
        first == CHOOSE i \in 1..Len(stack) :
                     outside(i) /\ \A j \in 1..(i - 1) : ~outside(j)
    IN <<stack[first].name.pkg, ".", stack[first].name.fn, ":",
         ToString(stack[first].line)>>

PanicText == <<"PANIC (">> \o ExpectedOrigin(hist.stack) \o <<"): ", hist.value>>

\* C5 as stated: the event of a panic with value v has the message
\* "PANIC (<origin>): v".
PanicTextIsMessage ==
    (Panicked /\ Len(emitted) = 1) => emitted[1].message = PanicText

\* C5, amended: the event of a panic with value v has the error field
\* "PANIC (<origin>): v", <origin> being "<function>:<line>" of the innermost frame
\* outside the runtime, and the message "ERROR -><method> <path>".
PanicTextIsErrorField ==
    (Panicked /\ Len(emitted) = 1) =>
        /\ "error" \in DOMAIN emitted[1].fields
        /\ emitted[1].fields.error = PanicText
        /\ emitted[1].message = <<"ERROR ->", r.Method, " ">> \o r.URL.Path

PanicTextIsErrorFieldWitness ==
    /\ Panicked
    /\ hist.value = "boom"
    /\ Len(hist.stack) > 3
    /\ \E i \in 1..Len(hist.stack) : ~hist.stack[i].known
    /\ emitted[1].fields.error
           = <<"PANIC (", "runtime/debug", ".", "helper", ":", "30", "): ", "boom">>

\* the first value of a header, "" when the header is not set
FirstValue(h, key) == IF key \in DOMAIN h /\ h[key] # <<>> THEN Head(h[key]) ELSE ""

IdMatches(fields, field, h, key) ==
    IF FirstValue(h, key) # ""
    THEN field \in DOMAIN fields /\ fields[field] = FirstValue(h, key)
    ELSE field \notin DOMAIN fields

IdsMatch(fields, h) ==
    /\ IdMatches(fields, "correlation_id", h, "X-Correlation-Id")
    /\ IdMatches(fields, "user_correlation_id", h, "X-User-Correlation-Id")

\* C10: every event of Access, AccessError, Call, the entry of Application and
\* the events of the middleware carry correlation_id equal to the request's
\* correlation header when it is non-empty and user_correlation_id equal to the
\* user correlation header when it is non-empty, each omitted otherwise,
\* whatever the other one is.
CorrelationIdsCopied ==
    /\ \A k \in 1..Len(emitted) : IdsMatch(emitted[k].fields, r.Header)
    /\ out.op # "none" =>
           \A k \in 1..Len(out.events) : IdsMatch(out.events[k].fields, r.Header)
    /\ out.op = "Application" => IdsMatch(out.entry, r.Header)

CorrelationIdsCopiedWitness ==
    /\ Panicked
    /\ "correlation_id" \notin DOMAIN emitted[1].fields
    /\ "user_correlation_id" \in DOMAIN emitted[1].fields
    /\ emitted[1].fields.user_correlation_id = "id-2"

----------------------------------------------------------------------------
(* SpecRace: a package variable is assigned while another goroutine builds *)
(* an event.  The package guards the variables by no lock and no atomic,   *)
(* so an assignment is the stores of the words of a slice header and a     *)
(* read is the loads of those words, each a step of its own.  In this      *)
(* specification a package variable holds its slice header: the backing    *)
(* array it points to and the length (a range loop does not read the       *)
(* capacity).                                                              *)

MaxSwaps == 2   \* assignments of package variables in one run

PackageVars == {"AccessLogCookiesBlacklist", "AnonymizedQueryParams"}

Words == {"array", "len"}

OtherWord(word) == IF word = "array" THEN "len" ELSE "array"

\* the slice header of a list
SliceOf(list) == [array |-> list, len |-> Len(list)]

\* the header a package variable holds
HeaderOf(name) ==
    IF name = "AnonymizedQueryParams" THEN AnonymizedQueryParams
    ELSE AccessLogCookiesBlacklist

\* the lists a package variable is set to
ListsOf(name) ==
    IF name = "AnonymizedQueryParams" THEN AnonymizedLists ELSE BlacklistLists

\* one word of the header of a package variable is stored
StoreWord(name, word, value) ==
    /\ AnonymizedQueryParams' =
           IF name = "AnonymizedQueryParams"
           THEN [AnonymizedQueryParams EXCEPT ![word] = value]
           ELSE AnonymizedQueryParams
    /\ AccessLogCookiesBlacklist' =
           IF name = "AccessLogCookiesBlacklist"
           THEN [AccessLogCookiesBlacklist EXCEPT ![word] = value]
           ELSE AccessLogCookiesBlacklist

\* a read beyond the end of the backing array: the runtime stops the goroutine
\* with a fault, or the memory there holds some string
Beyond(fault, value) == [fault |-> fault, value |-> value]

OutOfBounds(name) ==
    IF name = "AnonymizedQueryParams"
    THEN {Beyond(FALSE, <<"q">>), Beyond(FALSE, <<"0">>), Beyond(TRUE, <<>>)}
    ELSE {Beyond(FALSE, "foo"), Beyond(FALSE, ""), Beyond(TRUE, "")}

\* the elements of header s that lie in its backing array
InBounds(s) == SubSeq(s.array, 1, IF s.len < Len(s.array) THEN s.len ELSE Len(s.array))

\* contains(s, e) on a loaded header: "found", "absent" or "fault"; the scan stops
\* at the first element equal to e, beyond is what lies after the array
containsLoaded(s, e, beyond) ==
    IF contains(InBounds(s), e) THEN "found"
    ELSE IF s.len <= Len(s.array) THEN "absent"
    ELSE IF beyond.fault THEN "fault"
    ELSE IF beyond.value = e THEN "found"
    ELSE "absent"

\* name = list, first word: the compiler fixes the order of the stores
BeginAssign ==
    /\ writer.pc = "ready"
    /\ writer.swaps < MaxSwaps
    /\ \E name \in PackageVars, word \in Words :
         \E list \in ListsOf(name) \ {HeaderOf(name).array} :
           /\ StoreWord(name, word, SliceOf(list)[word])
           /\ writer' = [writer EXCEPT !.pc = "storing", !.var = name,
                                       !.new = SliceOf(list),
                                       !.left = OtherWord(word),
                                       !.swaps = @ + 1,
                                       !.assigned[name] = @ \cup {list}]
    /\ UNCHANGED <<r, out, reader>>
    /\ MwUnchanged

\* name = list, second word
EndAssign ==
    /\ writer.pc = "storing"
    /\ StoreWord(writer.var, writer.left, writer.new[writer.left])
    /\ writer' = [writer EXCEPT !.pc = "ready"]
    /\ UNCHANGED <<r, out, reader>>
    /\ MwUnchanged

\* the loops of the builders, in the order the builder runs them: "url",
\* "full_url" and "message" are calls of buildFullPath, "cookies" is the loop
\* of access
PhasesOf(op, err) ==
    IF op = "Access" THEN <<"url", "cookies">>
    ELSE IF ~err.isNil THEN <<"url", "full_url">>
    ELSE <<"url", "full_url", "message">>

VarOf(phase) ==
    IF phase = "cookies" THEN "AccessLogCookiesBlacklist" ELSE "AnonymizedQueryParams"

\* what the loop of a phase ranges over: the keys of the query in some order, or
\* the cookies in their order
RangesOf(req, phase) ==
    IF phase = "cookies" THEN {req.Cookies} ELSE KeyOrders(DOMAIN URLQuery(req))

NoSlice == [have |-> "", array |-> <<>>, len |-> 0]

NoCookies == [n \in {} |-> ""]

RaceQueries == { <<"q", "=", "1">>, <<"q", "=", "1", "&", "a", "=", "1">> }

RaceRequests == {Request(q, BaseHeader, BaseCookies, "") : q \in RaceQueries}

RaceInputs ==
    {[op |-> "Call", req |-> req, resp |-> ResponseOf(200, "text/html"), err |-> err,
      statusCode |-> 0] : req \in RaceRequests, err \in {NilError, Oops}}
    \cup {[op |-> "Access", req |-> req, resp |-> NilResponse, err |-> NilError,
           statusCode |-> 200] : req \in RaceRequests}

\* a goroutine enters Call or Access and reaches the first loop
ReaderEnter ==
    /\ reader.pc = "idle"
    /\ \E in \in RaceInputs :
         \E todo \in RangesOf(in.req, "url") :
           /\ r' = in.req
           /\ reader' = [pc |-> "range", op |-> in.op, resp |-> in.resp,
                         err |-> in.err, statusCode |-> in.statusCode,
                         phases |-> PhasesOf(in.op, in.err), todo |-> todo,
                         s |-> NoSlice, queryParams |-> EmptyValues,
                         cookies |-> NoCookies, paths |-> <<>>, tests |-> <<>>]
    /\ out' = NoOutput
    /\ UNCHANGED <<AccessLogCookiesBlacklist, AnonymizedQueryParams, writer>>
    /\ MwUnchanged

\* contains(<package variable>, e): the argument is evaluated, one word of the
\* header is loaded
LoadFirst ==
    /\ reader.pc = "range"
    /\ reader.todo # <<>>
    /\ \E word \in Words :
           reader' = [reader EXCEPT
               !.pc = "load",
               !.s = [NoSlice EXCEPT
                         !.have = word,
                         ![word] = HeaderOf(VarOf(Head(reader.phases)))[word]]]
    /\ UNCHANGED <<AccessLogCookiesBlacklist, AnonymizedQueryParams, r, out, writer>>
    /\ MwUnchanged

\* the other word is loaded, contains scans the loaded slice and the body of the
\* loop uses its answer
LoadRestAndScan ==
    /\ reader.pc = "load"
    /\ LET phase == Head(reader.phases)
           name == VarOf(phase)
           word == OtherWord(reader.s.have)
           s == [reader.s EXCEPT ![word] = HeaderOf(name)[word]]
           item == Head(reader.todo)
           e == IF phase = "cookies" THEN item.Name ELSE item
       IN \E beyond \in OutOfBounds(name) :
            LET answer == containsLoaded(s, e, beyond)
                test == [phase |-> phase, var |-> name,
                         s |-> [array |-> s.array, len |-> s.len]]
            IN reader' = [reader EXCEPT
                   !.pc = IF answer = "fault" THEN "fault" ELSE "range",
                   !.s = NoSlice,
                   !.todo = Tail(@),
                   !.tests = Append(@, test),
                   !.queryParams =
                       IF phase = "cookies" \/ answer = "fault" THEN @
                       ELSE (item :> (IF answer = "found" THEN <<Mask>>
                                      ELSE URLQuery(r)[item])) @@ @,
                   !.cookies =
                       IF phase = "cookies" /\ answer = "absent"
                       THEN (item.Name :> item.Value) @@ @
                       ELSE @]
    /\ UNCHANGED <<AccessLogCookiesBlacklist, AnonymizedQueryParams, r, out, writer>>
    /\ MwUnchanged

\* the events of the builder once its loops are through
builtEvents(rd, req) ==
    IF rd.op = "Access"
    THEN AccessWith(req, rd.statusCode,
                    accessWith(req, rd.statusCode, rd.err, rd.paths[1], rd.cookies))
    ELSE callWith(req, rd.resp, rd.err, rd.paths[1], formatUrl(req, rd.paths[2]),
                  IF Len(rd.paths) >= 3 THEN formatUrl(req, rd.paths[3]) ELSE <<>>)

\* the loop is through: buildFullPath returns its string; the builder goes on
\* to its next loop or hands the event to the Logger
EndRange ==
    /\ reader.pc = "range"
    /\ reader.todo = <<>>
    /\ LET phase == Head(reader.phases)
           paths == IF phase = "cookies" THEN reader.paths
                    ELSE Append(reader.paths,
                                formatPath(r, reader.queryParams,
                                           AnyOrder(DOMAIN reader.queryParams)))
           rest == Tail(reader.phases)
       IN IF rest = <<>>
          THEN /\ reader' = [reader EXCEPT !.pc = "done", !.phases = rest,
                                           !.paths = paths]
               /\ out' = [op |-> reader.op,
                          events |-> builtEvents([reader EXCEPT !.paths = paths], r)]
          ELSE /\ \E todo \in RangesOf(r, Head(rest)) :
                      reader' = [reader EXCEPT !.phases = rest, !.paths = paths,
                                               !.todo = todo,
                                               !.queryParams = EmptyValues]
               /\ out' = out
    /\ UNCHANGED <<AccessLogCookiesBlacklist, AnonymizedQueryParams, r, writer>>
    /\ MwUnchanged

\* the writer before its first assignment; assigned: the lists each variable has
\* been given so far
NewWriter ==
    [pc |-> "ready", var |-> "", new |-> SliceOf(<<>>), left |-> "", swaps |-> 0,
     assigned |-> [name \in PackageVars |-> {HeaderOf(name).array}]]

InitRace ==
    /\ AccessLogCookiesBlacklist = SliceOf(<<"ignore", "user_id">>)
    /\ AnonymizedQueryParams = SliceOf(<<<<"q">>>>)
    /\ r = NoRequest
    /\ out = NoOutput
    /\ MwInit
    /\ writer = NewWriter
    /\ reader = NoReader

NextRace ==
    \/ BeginAssign
    \/ EndAssign
    \/ ReaderEnter
    \/ LoadFirst
    \/ LoadRestAndScan
    \/ EndRange

SpecRace == InitRace /\ [][NextRace]_vars

----------------------------------------------------------------------------
(* Claims about SpecRace *)

\* the headers a package variable is given as a whole
WholeHeaders(name) == {SliceOf(list) : list \in writer.assigned[name]}

\* C11: while a package variable is replaced, every membership test of a
\* reader works on a list the variable was given as a whole, the old one or
\* the new one, never on a mix of the two
TestsSeeWholeLists ==
    reader.pc # "idle" =>
        \A i \in DOMAIN reader.tests :
            reader.tests[i].s \in WholeHeaders(reader.tests[i].var)

\* C12: the event of one Call shows one redaction policy: url, full_url and
\* the URL of the message are the same redacted path, and the tests of one
\* buildFullPath all work on the same list.  Stated of the runs in which every
\* test read a whole list; the torn reads are the matter of C11.
CallUsesOneSnapshot ==
    (reader.pc = "done" /\ reader.op = "Call" /\ TestsSeeWholeLists) =>
        LET e == out.events[1]
        IN /\ e.fields.full_url = formatUrl(r, e.fields.url)
           /\ reader.err.isNil =>
                  e.message = <<ToString(reader.resp.StatusCode), " ", r.Method, "-> ">>
                                  \o e.fields.full_url
           /\ \A i, j \in DOMAIN reader.tests :
                  reader.tests[i].phase = reader.tests[j].phase
                      => reader.tests[i].s = reader.tests[j].s

=============================================================================
